---- MODULE Spec2Model ----
(***************************************************************************)
(* A model of the worker pool of src/src/worker_pool.ts: the Lock (a       *)
(* single-slot wait/notify primitive), the TaskQueue (a doubly linked      *)
(* list drained by an async generator), the AvailabilityQueue (flags plus  *)
(* a count), and the WorkerPool that wires worker events to them.          *)
(*                                                                         *)
(* The main thread is one event loop.  An action of the model is one       *)
(* synchronous block of the main thread: the code between two awaits of    *)
(* the dispatcher loop start(), a call made by the application (addTask,   *)
(* start, stop), or the handler of one worker event.  Worker events are    *)
(* event-loop tasks: they are delivered only when no continuation of the   *)
(* dispatcher is pending (Runnable), because promise continuations run     *)
(* before the next event-loop task.  The application may call in between   *)
(* any two continuations.  Workers run in parallel with the main thread    *)
(* (WorkerRun).                                                            *)
(***************************************************************************)
EXTENDS Integers, Sequences, FiniteSets, TLC

\* Bounds of the model.
poolSize == 2
MaxTasks == 3

Data == {"a", "b"}
Slots == 0 .. (poolSize - 1)
TaskIds == 1 .. MaxTasks
NodeIds == 1 .. MaxTasks

\* The absent node reference (undefined head, tail, prev or next).
Null == 0
\* The value getAvailability returns when its scan finds no flag set.
NoSlot == -1

NoTask == [id |-> 0, data |-> "none"]
NoResult == [worker |-> NoSlot, data |-> "none"]

VARIABLES
    workerState,    \* per slot: "starting", "online" or "exited" (the worker thread)
    ready,          \* per slot: the initialization promise of getInstance is resolved
    inbox,          \* per slot: tasks posted to the worker it has not yet processed
    outbox,         \* per slot: {id, result} messages the worker posted, not yet delivered
    availability,   \* WorkerPool.availability: [availability, availabilityCount, lock]
    taskQueue,      \* WorkerPool.taskQueue: [head, tail, nodes, lock]
    notifications,  \* WorkerPool.notifications: task id -> the handle its resolve fulfils
    handles,        \* the promises returned by addTask: [state, calls, value, by]
    pc,             \* position of the dispatcher loop start()
    task,           \* the task the dispatcher took from the queue
    workerId,       \* the slot getAvailability returned to the dispatcher
    posted,         \* history: the postMessage calls of the dispatcher, in order
    nextId,         \* number of addTask calls made so far
    stopState,      \* stop(): "none", "stopping" (terminate requested), "resolved"
    errorLogged,    \* history: an error event of some worker has been logged
    lastIdle,       \* history: the slot that most recently went from busy to idle
    startedAt,      \* history: number of tasks submitted when start() was called, or -1
    payloads        \* history: the payload of each submitted task, by task id

vars == <<workerState, ready, inbox, outbox, availability, taskQueue, notifications,
          handles, pc, task, workerId, posted, nextId, stopState, errorLogged, lastIdle,
          startedAt, payloads>>

----------------------------------------------------------------------------
\* class Lock

\* The resolve field is "undefined" or holds the resolver of the one waiter.
NewLock == [resolve |-> "undefined"]

\* acquire registers the caller's resolver, replacing whatever was there.
acquire(lock) == [lock EXCEPT !.resolve = "waiter"]

\* A release that remembers a signal sent while nobody waits.
releaseBuffered(lock) ==
    IF lock.resolve = "waiter"
    THEN [lock EXCEPT !.resolve = "undefined"]
    ELSE [lock EXCEPT !.resolve = "signalled"]

release(lock) ==
    IF lock.resolve # "undefined"
    THEN [lock EXCEPT !.resolve = "undefined"]
    ELSE lock

----------------------------------------------------------------------------
\* class TaskQueue

NewTaskQueue == [head |-> Null, tail |-> Null, nodes |-> << >>, lock |-> NewLock]

\* A fresh object for the node that push creates.
NewNode(q) == CHOOSE n \in NodeIds : n \notin DOMAIN q.nodes

\* A push that links the new node in front of the head.
pushFront(q, item) ==
    LET n == NewNode(q) IN
    IF q.head # Null
    THEN [q EXCEPT
            !.nodes = [@ EXCEPT ![q.head].prev = n]
                      @@ (n :> [prev |-> Null, next |-> q.head, value |-> item]),
            !.head = n,
            !.lock = release(@)]
    ELSE [q EXCEPT
            !.nodes = @ @@ (n :> [prev |-> Null, next |-> Null, value |-> item]),
            !.head = n,
            !.tail = n,
            !.lock = release(@)]

\* A push that links the node and does not release the lock.
pushNoRelease(q, item) ==
    LET n == NewNode(q) IN
    IF q.tail # Null
    THEN [q EXCEPT
            !.nodes = [@ EXCEPT ![q.tail].next = n]
                      @@ (n :> [prev |-> q.tail, next |-> Null, value |-> item]),
            !.tail = n]
    ELSE [q EXCEPT
            !.nodes = @ @@ (n :> [prev |-> Null, next |-> Null, value |-> item]),
            !.head = n,
            !.tail = n]

push(q, item) ==
    LET n == NewNode(q) IN
    IF q.tail # Null
    THEN [q EXCEPT
            !.nodes = [@ EXCEPT ![q.tail].next = n]
                      @@ (n :> [prev |-> q.tail, next |-> Null, value |-> item]),
            !.tail = n,
            !.lock = release(@)]
    ELSE [q EXCEPT
            !.nodes = @ @@ (n :> [prev |-> Null, next |-> Null, value |-> item]),
            !.head = n,
            !.tail = n,
            !.lock = release(@)]

\* The statements of pop between reading the head and the yield throw a
\* TypeError when they dereference an undefined node.
popThrows(q) ==
    \/ q.head = Null
    \/ q.head # q.tail /\ q.nodes[q.head].next = Null

\* A pop that reads the head and leaves it linked.
unlinkNothing(q) == q

\* A pop that clears the head of a one-element queue and leaves the tail.
unlinkHeadKeepTail(q) ==
    IF q.head = q.tail
    THEN [q EXCEPT !.head = Null,
                   !.nodes = [n \in DOMAIN q.nodes \ {q.head} |-> q.nodes[n]]]
    ELSE LET h == q.nodes[q.head].next IN
         [q EXCEPT !.head = h,
                   !.nodes = [n \in DOMAIN q.nodes \ {q.head} |->
                                 IF n = h THEN [q.nodes[n] EXCEPT !.prev = Null]
                                 ELSE q.nodes[n]]]

\* pop, lines 80-87: unlink the head node (the unlinked node is garbage).
unlinkHead(q) ==
    IF q.head = q.tail
    THEN [q EXCEPT !.head = Null, !.tail = Null,
                   !.nodes = [n \in DOMAIN q.nodes \ {q.head} |-> q.nodes[n]]]
    ELSE LET h == q.nodes[q.head].next IN
         [q EXCEPT !.head = h,
                   !.nodes = [n \in DOMAIN q.nodes \ {q.head} |->
                                 IF n = h THEN [q.nodes[n] EXCEPT !.prev = Null]
                                 ELSE q.nodes[n]]]

\* The tasks of the queue from head to tail, following the next references.
RECURSIVE Chain(_, _, _)
Chain(q, n, fuel) ==
    IF n = Null \/ fuel = 0 \/ n \notin DOMAIN q.nodes THEN << >>
    ELSE <<q.nodes[n].value>> \o Chain(q, q.nodes[n].next, fuel - 1)

Queued(q) == Chain(q, q.head, MaxTasks + 1)

----------------------------------------------------------------------------
\* class AvailabilityQueue

NewAvailabilityQueue ==
    [availability |-> [s \in Slots |-> FALSE], availabilityCount |-> 0, lock |-> NewLock]

\* A freeze without the test of the flag.
freezeUnguarded(a, id) ==
    [a EXCEPT !.availability[id] = FALSE, !.availabilityCount = @ - 1]

freeze(a, id) ==
    IF a.availability[id]
    THEN [a EXCEPT !.availability[id] = FALSE, !.availabilityCount = @ - 1]
    ELSE a

\* An enable that does not release the lock.
enableNoRelease(a, id) ==
    IF ~a.availability[id]
    THEN [a EXCEPT !.availability[id] = TRUE, !.availabilityCount = @ + 1]
    ELSE a

enable(a, id) ==
    IF ~a.availability[id]
    THEN [a EXCEPT !.availability[id] = TRUE, !.availabilityCount = @ + 1,
                   !.lock = release(@)]
    ELSE a

\* A scan from the highest slot id down.
lastAvailable(a) ==
    IF \E s \in Slots : a.availability[s]
    THEN CHOOSE s \in Slots :
            a.availability[s] /\ \A r \in Slots : a.availability[r] => s >= r
    ELSE NoSlot

\* The scan of getAvailability: the first slot whose flag is set, else -1.
firstAvailable(a) ==
    IF \E s \in Slots : a.availability[s]
    THEN CHOOSE s \in Slots :
            a.availability[s] /\ \A r \in Slots : a.availability[r] => s <= r
    ELSE NoSlot

----------------------------------------------------------------------------
\* The dispatcher loop and the event loop

\* A continuation of the dispatcher is pending: it is between two awaits, or the
\* promise it awaits in Lock.acquire has been resolved by Lock.release.
Runnable ==
    \/ pc \in {"yielded", "claimed"}
    \/ pc = "popAwait" /\ taskQueue.lock.resolve = "undefined"
    \/ pc = "availAwait" /\ availability.lock.resolve = "undefined"

\* getInstance has returned the pool: every worker has reported online.
Constructed == \A s \in Slots : ready[s]

\* History: the slot that became idle in the step to tracker state a, if any,
\* else the slot that did last (an action makes at most one slot idle).
LastIdleAfter(a) ==
    LET new == {s \in Slots : a.availability[s] /\ ~availability.availability[s]}
    IN IF new = {} THEN lastIdle ELSE CHOOSE s \in new : TRUE

\* worker.ts: the result a worker computes for a payload.
Echo(w, data) == [worker |-> w, data |-> data]

\* A pop that waits on the lock without testing the head first.
popNextAlwaysWait ==
    /\ taskQueue' = [taskQueue EXCEPT !.lock = acquire(@)]
    /\ pc' = "popAwait"
    /\ task' = NoTask

\* One iteration of the loop of pop, from the test of the head to the await or
\* the yield.
popNext ==
    IF taskQueue.head = Null
    THEN /\ taskQueue' = [taskQueue EXCEPT !.lock = acquire(@)]
         /\ pc' = "popAwait"
         /\ task' = NoTask
    ELSE /\ taskQueue' = unlinkHead(taskQueue)
         /\ task' = taskQueue.nodes[taskQueue.head].value
         /\ pc' = "yielded"

\* pop resumed after the await of lock.acquire: it reads the head without a test.
popResume ==
    IF popThrows(taskQueue)
    THEN /\ pc' = "crashed"
         /\ UNCHANGED <<taskQueue, task>>
    ELSE /\ taskQueue' = unlinkHead(taskQueue)
         /\ task' = taskQueue.nodes[taskQueue.head].value
         /\ pc' = "yielded"

\* A getAvailability that returns the slot without freezing it.
getAvailabilityNoFreeze ==
    IF availability.availabilityCount <= 0
    THEN /\ availability' = [availability EXCEPT !.lock = acquire(@)]
         /\ pc' = "availAwait"
         /\ workerId' = NoSlot
    ELSE /\ availability' = availability
         /\ workerId' = firstAvailable(availability)
         /\ pc' = "claimed"

\* A getAvailability that tests the count with an if: after the wake-up it scans
\* the flags without testing the count again.
getAvailabilityIf ==
    IF availability.availabilityCount <= 0 /\ pc # "availAwait"
    THEN /\ availability' = [availability EXCEPT !.lock = acquire(@)]
         /\ pc' = "availAwait"
         /\ workerId' = NoSlot
    ELSE LET id == firstAvailable(availability) IN
         /\ availability' = IF id = NoSlot THEN availability ELSE freeze(availability, id)
         /\ workerId' = id
         /\ pc' = "claimed"

\* getAvailability, from the test of the count to the await or the return.
getAvailability ==
    IF availability.availabilityCount <= 0
    THEN /\ availability' = [availability EXCEPT !.lock = acquire(@)]
         /\ pc' = "availAwait"
         /\ workerId' = NoSlot
    ELSE LET id == firstAvailable(availability) IN
         /\ availability' = IF id = NoSlot THEN availability ELSE freeze(availability, id)
         /\ workerId' = id
         /\ pc' = "claimed"

Init ==
    /\ workerState = [s \in Slots |-> "starting"]
    /\ ready = [s \in Slots |-> FALSE]
    /\ inbox = [s \in Slots |-> << >>]
    /\ outbox = [s \in Slots |-> << >>]
    /\ availability = NewAvailabilityQueue
    /\ taskQueue = NewTaskQueue
    /\ notifications = << >>
    /\ handles = [t \in TaskIds |->
                    [state |-> "none", calls |-> 0, value |-> NoResult, by |-> 0]]
    /\ pc = "notStarted"
    /\ task = NoTask
    /\ workerId = NoSlot
    /\ posted = << >>
    /\ nextId = 0
    /\ stopState = "none"
    /\ errorLogged = FALSE
    /\ lastIdle = NoSlot
    /\ startedAt = -1
    /\ payloads = << >>

\* addTask: a fresh id, the resolver registered under it, the task pushed.
addTask(data) ==
    /\ Constructed
    /\ nextId < MaxTasks
    /\ LET id == nextId + 1 IN
       /\ nextId' = id
       /\ handles' = [handles EXCEPT ![id].state = "pending"]
       /\ notifications' = notifications @@ (id :> id)
       /\ taskQueue' = push(taskQueue, [id |-> id, data |-> data])
       /\ payloads' = Append(payloads, data)
    /\ UNCHANGED <<workerState, ready, inbox, outbox, availability, pc, task, workerId,
                   posted, stopState, errorLogged, lastIdle, startedAt>>

\* A start() that runs a new dispatcher loop whenever it is called.
startAgain ==
    /\ Constructed
    /\ pc # "crashed"
    /\ popNext
    /\ startedAt' = nextId
    /\ UNCHANGED <<workerState, ready, inbox, outbox, availability, notifications,
                   handles, workerId, posted, nextId, stopState, errorLogged, lastIdle,
                   payloads>>

\* start(): the for await calls pop, which runs to its first await or yield.
\* The application calls start() once (app.ts).
start ==
    /\ Constructed
    /\ pc = "notStarted"
    /\ popNext
    /\ startedAt' = nextId
    /\ UNCHANGED <<workerState, ready, inbox, outbox, availability, notifications,
                   handles, workerId, posted, nextId, stopState, errorLogged, lastIdle,
                   payloads>>

\* The dispatcher resumes in pop after the queue's lock was released.
PopWake ==
    /\ pc = "popAwait"
    /\ taskQueue.lock.resolve = "undefined"
    /\ popResume
    /\ UNCHANGED <<workerState, ready, inbox, outbox, availability, notifications,
                   handles, workerId, posted, nextId, stopState, errorLogged, lastIdle,
                   startedAt, payloads>>

\* The loop body of start() receives the task and calls getAvailability.
Claim ==
    /\ pc = "yielded"
    /\ getAvailability
    /\ lastIdle' = LastIdleAfter(availability')
    /\ UNCHANGED <<workerState, ready, inbox, outbox, taskQueue, notifications, handles,
                   task, posted, nextId, stopState, errorLogged, startedAt, payloads>>

\* getAvailability resumes after the tracker's lock was released and tests again.
AvailWake ==
    /\ pc = "availAwait"
    /\ availability.lock.resolve = "undefined"
    /\ getAvailability
    /\ lastIdle' = LastIdleAfter(availability')
    /\ UNCHANGED <<workerState, ready, inbox, outbox, taskQueue, notifications, handles,
                   task, posted, nextId, stopState, errorLogged, startedAt, payloads>>

\* this.workers[workerId].postMessage(task), then the next iteration of pop.
\* workers[-1] is undefined: the call throws. A terminated worker drops the message.
Post ==
    /\ pc = "claimed"
    /\ IF workerId = NoSlot
       THEN /\ pc' = "crashed"
            /\ UNCHANGED <<inbox, posted, taskQueue, task>>
       ELSE /\ inbox' = IF workerState[workerId] = "exited" THEN inbox
                        ELSE [inbox EXCEPT ![workerId] = Append(@, task)]
            /\ posted' = Append(posted, [id |-> task.id, worker |-> workerId])
            /\ popNext
    /\ workerId' = NoSlot
    /\ UNCHANGED <<workerState, ready, outbox, availability, notifications, handles,
                   nextId, stopState, errorLogged, lastIdle, startedAt, payloads>>

\* The pool state a message handler reads and writes.
PoolState == [notifications |-> notifications, handles |-> handles,
              availability |-> availability]

\* A handler that calls the oldest registered notification instead of the one
\* registered under the id of the message.
onMessageOldest(st, w, msg) ==
    LET known == DOMAIN st.notifications # {}
        key == IF known
               THEN CHOOSE i \in DOMAIN st.notifications :
                       \A j \in DOMAIN st.notifications : i <= j
               ELSE 0
        h == IF known THEN st.notifications[key] ELSE 0
    IN [notifications |-> [i \in DOMAIN st.notifications \ {key} |-> st.notifications[i]],
        handles |-> IF known
                    THEN [st.handles EXCEPT
                            ![h] = [state |-> "fulfilled",
                                    calls |-> @.calls + 1,
                                    value |-> IF @.state = "fulfilled" THEN @.value
                                              ELSE msg.result,
                                    by |-> IF @.state = "fulfilled" THEN @.by ELSE msg.id]]
                    ELSE st.handles,
        availability |-> enable(st.availability, w)]

\* A handler that calls the notification and leaves it registered.
onMessageNoDelete(st, w, msg) ==
    LET known == msg.id \in DOMAIN st.notifications
        h == IF known THEN st.notifications[msg.id] ELSE 0
    IN [notifications |-> st.notifications,
        handles |-> IF known
                    THEN [st.handles EXCEPT
                            ![h] = [state |-> "fulfilled",
                                    calls |-> @.calls + 1,
                                    value |-> IF @.state = "fulfilled" THEN @.value
                                              ELSE msg.result,
                                    by |-> IF @.state = "fulfilled" THEN @.by ELSE msg.id]]
                    ELSE st.handles,
        availability |-> enable(st.availability, w)]

\* worker.on("message"): look up and delete the notification, call it with the
\* result, then enable the worker's slot.
onMessage(st, w, msg) ==
    LET known == msg.id \in DOMAIN st.notifications
        h == IF known THEN st.notifications[msg.id] ELSE 0
    IN [notifications |-> [i \in DOMAIN st.notifications \ {msg.id} |-> st.notifications[i]],
        handles |-> IF known
                    THEN [st.handles EXCEPT
                            ![h] = [state |-> "fulfilled",
                                    calls |-> @.calls + 1,
                                    value |-> IF @.state = "fulfilled" THEN @.value
                                              ELSE msg.result,
                                    by |-> IF @.state = "fulfilled" THEN @.by ELSE msg.id]]
                    ELSE st.handles,
        availability |-> enable(st.availability, w)]

\* An exit handler that leaves the slot as it is.
onExitNoFreeze(a, w) == a

\* worker.on("exit"): freeze the worker's slot.
onExit(a, w) == freeze(a, w)

\* The handler applied to each message of a sequence, in order.
RECURSIVE deliverAll(_, _, _)
deliverAll(st, w, msgs) ==
    IF msgs = << >> THEN st
    ELSE deliverAll(onMessage(st, w, Head(msgs)), w, Tail(msgs))

\* The worker thread comes up: worker.on("online") enables the slot and resolves
\* the initialization promise.
Online(w) ==
    /\ workerState[w] = "starting"
    /\ ~Runnable
    /\ workerState' = [workerState EXCEPT ![w] = "online"]
    /\ ready' = [ready EXCEPT ![w] = TRUE]
    /\ availability' = enable(availability, w)
    /\ lastIdle' = LastIdleAfter(availability')
    /\ UNCHANGED <<inbox, outbox, taskQueue, notifications, handles, pc, task, workerId,
                   posted, nextId, stopState, errorLogged, startedAt, payloads>>

\* worker.ts: the worker takes the next message, computes and posts the result.
WorkerRun(w) ==
    /\ workerState[w] = "online"
    /\ inbox[w] # << >>
    /\ LET t == Head(inbox[w]) IN
       /\ inbox' = [inbox EXCEPT ![w] = Tail(@)]
       /\ outbox' = [outbox EXCEPT ![w] = Append(@, [id |-> t.id, result |-> Echo(w, t.data)])]
    /\ UNCHANGED <<workerState, ready, availability, taskQueue, notifications, handles,
                   pc, task, workerId, posted, nextId, stopState, errorLogged, lastIdle,
                   startedAt, payloads>>

\* The message event of worker w is delivered to the main thread.
Message(w) ==
    /\ workerState[w] = "online"
    /\ outbox[w] # << >>
    /\ ~Runnable
    /\ LET st == onMessage(PoolState, w, Head(outbox[w])) IN
       /\ notifications' = st.notifications
       /\ handles' = st.handles
       /\ availability' = st.availability
       /\ lastIdle' = LastIdleAfter(st.availability)
    /\ outbox' = [outbox EXCEPT ![w] = Tail(@)]
    /\ UNCHANGED <<workerState, ready, inbox, taskQueue, pc, task, workerId, posted,
                   nextId, stopState, errorLogged, startedAt, payloads>>

\* An exit handler that puts the task its worker had not processed back on the
\* queue.
ExitRequeue(w) ==
    /\ workerState[w] # "exited"
    /\ ~Runnable
    /\ LET st == deliverAll(PoolState, w, outbox[w]) IN
       /\ notifications' = st.notifications
       /\ handles' = st.handles
       /\ availability' = onExit(st.availability, w)
       /\ lastIdle' = LastIdleAfter(onExit(st.availability, w))
    /\ taskQueue' = IF inbox[w] # << >> THEN push(taskQueue, Head(inbox[w]))
                    ELSE taskQueue
    /\ workerState' = [workerState EXCEPT ![w] = "exited"]
    /\ inbox' = [inbox EXCEPT ![w] = << >>]
    /\ outbox' = [outbox EXCEPT ![w] = << >>]
    /\ UNCHANGED <<ready, pc, task, workerId, posted, nextId, stopState,
                   errorLogged, startedAt, payloads>>

\* The worker thread has stopped (terminated by stop(), or on its own). The
\* messages it had posted are delivered first, then the exit event; the tasks it
\* had not processed are lost with it.
Exit(w) ==
    /\ workerState[w] # "exited"
    /\ ~Runnable
    /\ LET st == deliverAll(PoolState, w, outbox[w]) IN
       /\ notifications' = st.notifications
       /\ handles' = st.handles
       /\ availability' = onExit(st.availability, w)
       /\ lastIdle' = LastIdleAfter(onExit(st.availability, w))
    /\ workerState' = [workerState EXCEPT ![w] = "exited"]
    /\ inbox' = [inbox EXCEPT ![w] = << >>]
    /\ outbox' = [outbox EXCEPT ![w] = << >>]
    /\ UNCHANGED <<ready, taskQueue, pc, task, workerId, posted, nextId, stopState,
                   errorLogged, startedAt, payloads>>

\* An error handler that retires the slot as the exit handler does.
ErrorRetires(w) ==
    /\ workerState[w] # "exited"
    /\ ~Runnable
    /\ errorLogged' = TRUE
    /\ availability' = freeze(availability, w)
    /\ UNCHANGED <<workerState, ready, inbox, outbox, taskQueue,
                   notifications, handles, pc, task, workerId, posted, nextId, stopState,
                   lastIdle, startedAt, payloads>>

\* worker.on("error"): the error is logged.
Error(w) ==
    /\ workerState[w] # "exited"
    /\ ~Runnable
    /\ errorLogged' = TRUE
    /\ UNCHANGED <<workerState, ready, inbox, outbox, availability, taskQueue,
                   notifications, handles, pc, task, workerId, posted, nextId, stopState,
                   lastIdle, startedAt, payloads>>

\* A stop that also empties the task queue and the notifications.
stopClearing ==
    /\ Constructed
    /\ stopState = "none"
    /\ stopState' = "stopping"
    /\ taskQueue' = [NewTaskQueue EXCEPT !.lock = taskQueue.lock]
    /\ notifications' = << >>
    /\ UNCHANGED <<workerState, ready, inbox, outbox, availability, handles, pc, task,
                   workerId, posted, nextId, errorLogged, lastIdle, startedAt, payloads>>

\* stop(): terminate() is called on every worker.
stop ==
    /\ Constructed
    /\ stopState = "none"
    /\ stopState' = "stopping"
    /\ UNCHANGED <<workerState, ready, inbox, outbox, availability, taskQueue,
                   notifications, handles, pc, task, workerId, posted, nextId, errorLogged,
                   lastIdle, startedAt, payloads>>

\* The promise of stop() resolves when every terminate() promise has.
StopResolved ==
    /\ stopState = "stopping"
    /\ \A s \in Slots : workerState[s] = "exited"
    /\ stopState' = "resolved"
    /\ UNCHANGED <<workerState, ready, inbox, outbox, availability, taskQueue,
                   notifications, handles, pc, task, workerId, posted, nextId, errorLogged,
                   lastIdle, startedAt, payloads>>

Next ==
    \/ \E d \in Data : addTask(d)
    \/ start
    \/ PopWake
    \/ Claim
    \/ AvailWake
    \/ Post
    \/ \E w \in Slots : Online(w)
    \/ \E w \in Slots : WorkerRun(w)
    \/ \E w \in Slots : Message(w)
    \/ \E w \in Slots : Exit(w)
    \/ \E w \in Slots : Error(w)
    \/ stop
    \/ StopResolved

Spec == Init /\ [][Next]_vars

----------------------------------------------------------------------------
\* Workers that post more than one message per task

\* A worker posts a message whose id has no notification registered: a second
\* completion of a task already delivered, or an id that was never submitted.
StaleMessage(w, id, d) ==
    /\ workerState[w] = "online"
    /\ ~Runnable
    /\ Constructed
    /\ id \notin DOMAIN notifications
    /\ LET st == onMessage(PoolState, w, [id |-> id, result |-> Echo(w, d)]) IN
       /\ notifications' = st.notifications
       /\ handles' = st.handles
       /\ availability' = st.availability
       /\ lastIdle' = LastIdleAfter(st.availability)
    /\ UNCHANGED <<workerState, ready, inbox, outbox, taskQueue, pc, task, workerId,
                   posted, nextId, stopState, errorLogged, startedAt, payloads>>

NextStale ==
    \/ Next
    \/ \E w \in Slots, id \in TaskIds, d \in Data : StaleMessage(w, id, d)

SpecStale == Init /\ [][NextStale]_vars

----------------------------------------------------------------------------
\* Workers that never exit and complete every task they are handed

NextLive ==
    \/ \E d \in Data : addTask(d)
    \/ start
    \/ PopWake
    \/ Claim
    \/ AvailWake
    \/ Post
    \/ \E w \in Slots : Online(w)
    \/ \E w \in Slots : WorkerRun(w)
    \/ \E w \in Slots : Message(w)

\* A pending continuation of the dispatcher runs; a worker that holds a task
\* completes it; the event loop delivers a posted message.
Fairness ==
    /\ WF_vars(PopWake)
    /\ WF_vars(Claim)
    /\ WF_vars(AvailWake)
    /\ WF_vars(Post)
    /\ \A w \in Slots : WF_vars(WorkerRun(w))
    /\ \A w \in Slots : WF_vars(Message(w))

SpecLive == Init /\ [][NextLive]_vars /\ Fairness

\* The pool with workers that may exit at any time, for the progress of the
\* dispatcher alone: the application submits and starts, workers come online,
\* complete tasks and exit.
NextDispatch ==
    \/ \E d \in Data : addTask(d)
    \/ start
    \/ PopWake
    \/ Claim
    \/ AvailWake
    \/ Post
    \/ \E w \in Slots : Online(w)
    \/ \E w \in Slots : WorkerRun(w)
    \/ \E w \in Slots : Message(w)
    \/ \E w \in Slots : Exit(w)

\* A pending continuation of the dispatcher runs: promise continuations are
\* microtasks, which the event loop runs before it takes the next event. Nothing
\* is assumed about the application or the workers.
DispatcherFairness ==
    /\ WF_vars(PopWake)
    /\ WF_vars(Claim)
    /\ WF_vars(AvailWake)
    /\ WF_vars(Post)

SpecDispatch == Init /\ [][NextDispatch]_vars /\ DispatcherFairness

----------------------------------------------------------------------------
\* Properties

Submitted == 1 .. nextId

\* The postMessage calls to worker w whose task has no completion delivered yet.
Incomplete(w) ==
    {i \in DOMAIN posted :
        posted[i].worker = w /\ handles[posted[i].id].state = "pending"}

WasPosted(t) == \E i \in DOMAIN posted : posted[i].id = t

Exited == {s \in Slots : workerState[s] = "exited"}

\* A step in which getAvailability returns a slot to the dispatcher.
ClaimReturns == pc # "claimed" /\ pc' = "claimed"

\* A step in which the dispatcher calls postMessage.
PostStep == Len(posted') = Len(posted) + 1

\* C1. No loss: once the dispatcher is started, with workers that never exit and
\* complete every task, every pending result handle is eventually fulfilled, and
\* the resolver of no handle is ever called twice.
C1_NoLoss ==
    /\ \A t \in TaskIds :
          (pc # "notStarted" /\ handles[t].state = "pending")
             ~> (handles[t].state = "fulfilled")
    /\ [](\A t \in TaskIds :
             /\ handles[t].calls <= 1
             /\ handles[t].state = "fulfilled" => handles[t].calls = 1)

\* More tasks than workers were submitted and every handle is fulfilled.
C1_Witness ==
    /\ nextId = MaxTasks
    /\ MaxTasks > poolSize
    /\ \A t \in TaskIds : handles[t].state = "fulfilled" /\ handles[t].calls = 1

\* C2. Result routing: a fulfilled handle was fulfilled by the message that
\* carries the handle's own task id, and holds the result of its own payload as
\* computed by the worker the task was posted to.
C2_ResultRouting ==
    \A t \in TaskIds :
        handles[t].state = "fulfilled" =>
            /\ handles[t].by = t
            /\ handles[t].value.data = payloads[t]
            /\ \E i \in DOMAIN posted :
                  posted[i] = [id |-> t, worker |-> handles[t].value.worker]

\* A later task completed before an earlier one with a different payload.
C2_Witness ==
    /\ handles[1].state = "pending"
    /\ handles[2].state = "fulfilled"
    /\ WasPosted(1)
    /\ payloads[1] # payloads[2]

\* C3. FIFO dispatch: the i-th postMessage call carries the i-th submitted task.
C3_FifoDispatch == \A i \in DOMAIN posted : posted[i].id = i

\* Three tasks were posted although a worker exited and a later task completed
\* before an earlier one.
C3_Witness ==
    /\ Len(posted) >= 3
    /\ Exited # {}
    /\ \E t \in Submitted : \E u \in Submitted :
          t < u /\ handles[t].state = "pending" /\ handles[u].state = "fulfilled"

\* C4. Exclusive hand-off: the slot getAvailability returned is marked busy and
\* its worker holds no incomplete task; no worker holds two incomplete tasks; at
\* most poolSize posted tasks are incomplete.
C4_ExclusiveHandOff ==
    /\ pc = "claimed" =>
          /\ workerId \in Slots
          /\ ~availability.availability[workerId]
          /\ Incomplete(workerId) = {}
    /\ \A w \in Slots : Cardinality(Incomplete(w)) <= 1
    /\ Cardinality(UNION {Incomplete(w) : w \in Slots}) <= poolSize

\* Every worker holds a task and the dispatcher holds a further task, parked
\* until a slot frees up.
C4_Witness ==
    /\ \A w \in Slots : Cardinality(Incomplete(w)) = 1
    /\ pc = "availAwait"
    /\ task # NoTask
    /\ availability.lock.resolve = "waiter"

\* C5. Lowest-id tie-break: the slot getAvailability returns is the smallest id
\* among the slots idle when it returns.
C5_LowestIdFirst ==
    [][ClaimReturns =>
          /\ workerId' \in Slots
          /\ availability.availability[workerId']
          /\ \A r \in Slots : availability.availability[r] => workerId' <= r]_vars

\* Slot 0 was returned although slot 1, still idle, had become idle before it:
\* slot 0 is the one that became idle last, after both had worked.
C5_Witness ==
    /\ pc = "claimed"
    /\ workerId = 0
    /\ availability.availability[1]
    /\ lastIdle = 0
    /\ \E i \in DOMAIN posted : posted[i].worker = 1

\* C6. Idle-count invariant: availabilityCount is the number of flags set.
C6_IdleCount ==
    /\ availability.availabilityCount =
          Cardinality({s \in Slots : availability.availability[s]})
    /\ availability.availabilityCount \in 0 .. poolSize

\* A worker exited while it held a task (its slot was already busy) and the count
\* still matches the one idle slot left.
C6_Witness ==
    /\ \E s \in Exited : Incomplete(s) # {}
    /\ availability.availabilityCount = poolSize - 1
    /\ pc # "notStarted"

\* C7. Retirement: once worker s has exited, getAvailability never returns s and
\* no task is posted to s.
C7_Retirement ==
    [][\A s \in Exited :
          /\ ~(ClaimReturns /\ workerId' = s)
          /\ ~(PostStep /\ posted'[Len(posted')].worker = s)]_vars

\* A slot was claimed after another worker had exited holding a task.
C7_Witness ==
    /\ pc = "claimed"
    /\ \E s \in Exited : s # workerId /\ Incomplete(s) # {}

\* C8. Submit without start: while start() has not been called every submitted
\* task stays in the queue, nothing is dequeued or posted and every handle is
\* pending; once start() has been called, every task submitted before it is
\* posted to a worker.
C8_SubmitWithoutStart ==
    /\ [](pc = "notStarted" =>
             /\ posted = << >>
             /\ task = NoTask
             /\ Len(Queued(taskQueue)) = nextId
             /\ \A t \in TaskIds :
                   handles[t].state = IF t <= nextId THEN "pending" ELSE "none")
    /\ \A t \in TaskIds :
          (pc # "notStarted" /\ t <= startedAt) ~> WasPosted(t)

\* More tasks than workers were submitted before start() and all were posted.
C8_Witness ==
    /\ startedAt > poolSize
    /\ \A t \in 1 .. startedAt : WasPosted(t)

\* C9. Stop semantics: stop() resolves only when every worker has exited; the
\* call removes nothing from the task queue or the notifications; once every
\* worker has exited a pending handle stays pending.
C9_StopSemantics ==
    /\ [](stopState = "resolved" => Exited = Slots)
    /\ [][stopState = "none" /\ stopState' = "stopping" =>
             UNCHANGED <<taskQueue, notifications, handles>>]_vars
    /\ [][Exited = Slots =>
             /\ \A t \in TaskIds :
                   handles[t].state = "pending" => handles'[t].state = "pending"
             /\ DOMAIN notifications \subseteq DOMAIN notifications']_vars

\* stop() has resolved while one task was posted and incomplete, and another
\* task is still queued.
C9_Witness ==
    /\ stopState = "resolved"
    /\ \E t \in Submitted : WasPosted(t) /\ handles[t].state = "pending"
    /\ Queued(taskQueue) # << >>
    /\ \A t \in DOMAIN notifications : handles[t].state = "pending"

\* C10. A message whose id has no notification registered fulfils no handle and
\* leaves the notifications and the availability tracker unchanged.
C10_StaleDropped ==
    [][(\E w \in Slots, id \in TaskIds, d \in Data : StaleMessage(w, id, d)) =>
          UNCHANGED <<notifications, handles, availability>>]_vars

\* A task that was posted to a worker which has exited, with its handle pending.
Orphaned(t) ==
    /\ handles[t].state = "pending"
    /\ \E i \in DOMAIN posted :
          posted[i].id = t /\ workerState[posted[i].worker] = "exited"

\* C11. Orphaning on exit: the exit of a worker that has not processed the task
\* posted to it leaves the notifications, the handles, the task queue and the
\* record of posted tasks unchanged; from then on the task stays registered and
\* pending, is never queued again and is never posted a second time.
C11_OrphanedOnExit ==
    [][/\ \A w \in Slots :
            (/\ workerState[w] # "exited"
             /\ workerState'[w] = "exited"
             /\ inbox[w] # << >>)
            => UNCHANGED <<notifications, handles, taskQueue, posted, task>>
       /\ \A t \in TaskIds :
            Orphaned(t) =>
               /\ handles'[t] = handles[t]
               /\ t \in DOMAIN notifications'
               /\ \A k \in DOMAIN Queued(taskQueue') : Queued(taskQueue')[k].id # t
               /\ task'.id # t
               /\ Cardinality({i \in DOMAIN posted' : posted'[i].id = t}) = 1]_vars

\* A task is orphaned while a task submitted after it has been completed by the
\* other worker.
C11_Witness ==
    \E t \in Submitted, u \in Submitted :
       /\ Orphaned(t)
       /\ t \in DOMAIN notifications
       /\ u > t
       /\ handles[u].state = "fulfilled"

\* C12. Notifications invariant: the keys of notifications are exactly the ids of
\* the submitted tasks whose handle is pending, each key holds the resolver of
\* its own handle, a handle is fulfilled exactly when its resolver was called,
\* and no resolver is called more than once.
C12_NotificationsInvariant ==
    /\ DOMAIN notifications = {t \in Submitted : handles[t].state = "pending"}
    /\ \A t \in DOMAIN notifications : notifications[t] = t
    /\ \A t \in TaskIds :
          /\ handles[t].calls <= 1
          /\ handles[t].state = "fulfilled" <=> handles[t].calls = 1
          /\ t \notin Submitted => handles[t].state = "none"

\* The second of three submitted tasks is registered, the other two were
\* fulfilled and their entries removed.
C12_Witness ==
    /\ nextId = 3
    /\ DOMAIN notifications = {2}
    /\ handles[1].state = "fulfilled"
    /\ handles[3].state = "fulfilled"

\* The started dispatcher has a task to hand off and a slot to hand it to: a
\* task is queued or held and a slot is idle, or the slot is already claimed.
Ready ==
    /\ pc \notin {"notStarted", "crashed"}
    /\ \/ pc = "claimed"
       \/ /\ Queued(taskQueue) # << >> \/ task # NoTask
          /\ \E s \in Slots : availability.availability[s]

\* C13. Delegation on readiness: whenever the started dispatcher has a pending
\* task and an idle slot, a continuation of the dispatcher is pending (no wake-up
\* was missed), and a task is posted with nothing but the dispatcher running.
C13_DelegationOnReadiness ==
    /\ [](Ready => Runnable)
    /\ \A n \in 0 .. MaxTasks :
          (Ready /\ Len(posted) = n) ~> (Len(posted) > n)

\* Every worker was given a task, the dispatcher held the next task and waited
\* for a slot, and the completion of a task has just woken it.
C13_Witness ==
    /\ pc = "availAwait"
    /\ availability.lock.resolve = "undefined"
    /\ availability.availabilityCount > 0
    /\ task # NoTask
    /\ Len(posted) >= poolSize
    /\ Exited = {}

\* A step in which push releases the lock of the task queue.
SignalQueue == nextId' = nextId + 1

\* A step in which enable releases the lock of the tracker: a flag is set, also
\* when the exit handler of the same step clears it again.
SignalAvailability ==
    \E s \in Slots :
       /\ ~availability.availability[s]
       /\ \/ availability'.availability[s]
          \/ workerState[s] # "exited" /\ workerState'[s] = "exited" /\ outbox[s] # << >>

\* C14. The locks do not buffer a release. A release with no waiter registered
\* leaves the lock as it is; a release with a waiter registered clears the
\* registration and makes the continuation of the waiter pending; an acquire
\* registers a waiter whatever was released before, and the waiter stays
\* registered and suspended in every step that releases nothing.
C14_GateNotBuffered ==
    [][/\ (SignalQueue /\ taskQueue.lock.resolve = "undefined")
             => taskQueue'.lock = taskQueue.lock
       /\ (SignalQueue /\ taskQueue.lock.resolve = "waiter")
             => taskQueue'.lock = NewLock /\ pc' = "popAwait" /\ Runnable'
       /\ (~SignalQueue /\ taskQueue.lock.resolve = "waiter")
             => taskQueue'.lock = taskQueue.lock /\ pc' = "popAwait" /\ ~Runnable'
       /\ (pc # "popAwait" /\ pc' = "popAwait")
             => taskQueue'.lock.resolve = "waiter" /\ ~Runnable'
       /\ (SignalAvailability /\ availability.lock.resolve = "undefined")
             => availability'.lock = availability.lock
       /\ (SignalAvailability /\ availability.lock.resolve = "waiter")
             => availability'.lock = NewLock /\ pc' = "availAwait" /\ Runnable'
       /\ (~SignalAvailability /\ availability.lock.resolve = "waiter")
             => availability'.lock = availability.lock /\ pc' = "availAwait" /\ ~Runnable'
       /\ (pc = "yielded" /\ pc' = "availAwait")
             => availability'.lock.resolve = "waiter" /\ ~Runnable']_vars

\* The first task was pushed with no waiter registered; the dispatcher posted it
\* and then waited on the empty queue; the second push has resumed it, and the
\* third push found no waiter.
C14_Witness ==
    /\ startedAt = 1
    /\ Len(posted) = 1
    /\ pc = "popAwait"
    /\ taskQueue.lock.resolve = "undefined"
    /\ Len(Queued(taskQueue)) = 2

\* A step in which the dispatcher calls acquire on the lock of the task queue:
\* pop finds the queue empty in start() or after a postMessage.
AcquireQueue == (pc = "notStarted" \/ PostStep) /\ pc' = "popAwait"

\* A step in which the dispatcher calls acquire on the lock of the tracker:
\* getAvailability finds the count at 0, on entry or after a wake-up.
AcquireAvailability ==
    /\ pc = "yielded" \/ (pc = "availAwait" /\ availability.lock.resolve = "undefined")
    /\ pc' = "availAwait"

\* C15. Single waiter: with start() called once, a resolver registered in a lock
\* is the resolver of the await the dispatcher is suspended at, so the two locks
\* never hold a waiter at the same time, and no acquire is called on a lock
\* that still holds a resolver.
C15_SingleWaiter ==
    /\ [](/\ taskQueue.lock.resolve = "waiter" => pc = "popAwait"
          /\ availability.lock.resolve = "waiter" => pc = "availAwait")
    /\ [][/\ AcquireQueue => taskQueue.lock.resolve = "undefined"
          /\ AcquireAvailability => availability.lock.resolve = "undefined"]_vars

\* The dispatcher is suspended in getAvailability with its resolver registered
\* in the lock of the tracker, after a completion was delivered and a worker
\* exited; tasks are queued and the lock of the queue holds no resolver.
C15_Witness ==
    /\ pc = "availAwait"
    /\ availability.lock.resolve = "waiter"
    /\ Exited # {}
    /\ \E t \in Submitted : handles[t].state = "fulfilled"
    /\ taskQueue.lock.resolve = "undefined"
    /\ Queued(taskQueue) # << >>

\* C16. The error event is observation-only: the step that logs a worker's error
\* leaves the flags and the count of the tracker, its lock, the task queue, the
\* notifications and the handles unchanged, the worker stays in service with the
\* task it holds, and the dispatcher is where it was.
C16_ErrorObservationOnly ==
    [][errorLogged' # errorLogged =>
          UNCHANGED <<availability, taskQueue, notifications, handles, workerState,
                      inbox, outbox, pc, task, workerId, posted>>]_vars

\* An error was logged, no worker has exited, and a worker that is online holds
\* a task whose notification is registered, while another slot is idle.
C16_Witness ==
    /\ errorLogged
    /\ Exited = {}
    /\ \E w \in Slots :
          /\ workerState[w] = "online"
          /\ ~availability.availability[w]
          /\ \E i \in Incomplete(w) : posted[i].id \in DOMAIN notifications
    /\ availability.availabilityCount > 0

\* The number of places at which task t is found on the main thread: nodes of
\* the queue, the task the dispatcher holds, postMessage calls made.
QueuedAt(t) == {k \in DOMAIN Queued(taskQueue) : Queued(taskQueue)[k].id = t}

HeldAt(t) == IF task.id = t THEN {0} ELSE {}

PostedAt(t) == {i \in DOMAIN posted : posted[i].id = t}

\* The copies of task t at worker w: received and not processed, or processed
\* with the result not yet delivered.
InFlightAt(t, w) ==
    {k \in DOMAIN inbox[w] : inbox[w][k].id = t}
       \cup {Len(inbox[w]) + k : k \in {j \in DOMAIN outbox[w] : outbox[w][j].id = t}}

\* C17. Task conservation: every submitted task is at exactly one place, a node
\* of the queue, the hands of the dispatcher, or posted to one worker; its handle
\* is fulfilled only if it was posted; and as long as no worker has exited, a
\* posted task with a pending handle is at the worker it was posted to, once,
\* and a fulfilled one is at no worker.
C17_TaskConservation ==
    /\ \A t \in TaskIds :
          Cardinality(QueuedAt(t)) + Cardinality(HeldAt(t)) + Cardinality(PostedAt(t))
             = IF t \in Submitted THEN 1 ELSE 0
    /\ \A t \in Submitted : handles[t].state = "fulfilled" => PostedAt(t) # {}
    /\ Exited = {} =>
          \A t \in Submitted, w \in Slots :
             Cardinality(InFlightAt(t, w)) =
                IF /\ handles[t].state = "pending"
                   /\ \E i \in PostedAt(t) : posted[i].worker = w
                THEN 1 ELSE 0

\* With no worker exited, one task is at a worker, the next is held by the
\* dispatcher and a third is in the queue.
C17_Witness ==
    /\ Exited = {}
    /\ \E t, u, v \in Submitted :
          /\ \E w \in Slots : InFlightAt(t, w) # {}
          /\ HeldAt(u) # {}
          /\ QueuedAt(v) # {}

\* The dispatcher was woken on the tracker's lock and no slot is idle any more:
\* the exit handler has frozen the slot that the wake-up announced.
WokenWithoutSlot ==
    /\ pc = "availAwait"
    /\ availability.lock.resolve = "undefined"
    /\ availability.availabilityCount = 0

\* C18. getAvailability never returns -1: every return yields a slot of the pool
\* whose flag was set just before and is cleared by the return, the dispatcher
\* never holds -1 when it indexes workers, and a dispatcher woken with no idle
\* slot left waits again instead of returning.
C18_ClaimNeverFails ==
    /\ [](/\ pc = "claimed" => workerId \in Slots
          /\ pc # "crashed")
    /\ [][/\ ClaimReturns =>
                /\ workerId' \in Slots
                /\ availability.availability[workerId']
                /\ ~availability'.availability[workerId']
          /\ WokenWithoutSlot =>
                \/ UNCHANGED <<pc, workerId, availability>>
                \/ /\ pc' = "availAwait"
                   /\ workerId' = NoSlot
                   /\ availability' = [availability EXCEPT !.lock = acquire(@)]]_vars

\* The completion of a task woke the dispatcher and the exit of the same worker
\* froze the slot before the dispatcher ran: it tests the count again at 0.
C18_Witness ==
    /\ WokenWithoutSlot
    /\ task # NoTask
    /\ Exited # {}
    /\ \E t \in Submitted : handles[t].state = "fulfilled"

\* The dispatcher is about to read the head in pop: its wait on the lock of the
\* queue has ended.
PopResumes == pc = "popAwait" /\ taskQueue.lock.resolve = "undefined"

\* C19. pop never reads an empty queue: when the dispatcher resumes in pop after
\* its wait the head is present, pop never throws, and in every state the head is
\* absent exactly when the tail is absent and exactly when the queue holds no
\* task; the nodes reachable from the head are all the nodes, the last of them
\* is the tail, and the prev and next references mirror each other.
C19_PopReadsNonEmpty ==
    /\ PopResumes => taskQueue.head # Null /\ ~popThrows(taskQueue)
    /\ pc # "crashed"
    /\ taskQueue.head = Null <=> taskQueue.tail = Null
    /\ taskQueue.head = Null <=> Queued(taskQueue) = << >>
    /\ Len(Queued(taskQueue)) = Cardinality(DOMAIN taskQueue.nodes)
    /\ taskQueue.head # Null =>
          /\ taskQueue.head \in DOMAIN taskQueue.nodes
          /\ taskQueue.tail \in DOMAIN taskQueue.nodes
          /\ taskQueue.nodes[taskQueue.head].prev = Null
          /\ taskQueue.nodes[taskQueue.tail].next = Null
          /\ taskQueue.nodes[taskQueue.tail].value
                = Queued(taskQueue)[Len(Queued(taskQueue))]
    /\ \A n \in DOMAIN taskQueue.nodes :
          LET x == taskQueue.nodes[n].next IN
          x # Null => x \in DOMAIN taskQueue.nodes /\ taskQueue.nodes[x].prev = n

\* The dispatcher waited on the empty queue, a push has ended its wait and a
\* second push followed before it ran: it resumes and reads the head of a queue
\* of two.
C19_Witness ==
    /\ PopResumes
    /\ Len(Queued(taskQueue)) = 2
    /\ taskQueue.head # taskQueue.tail

\* C20. Parked implies nothing to do: while a resolver is registered in the lock
\* of the queue the queue holds no task, and while one is registered in the lock
\* of the tracker the count is 0 and no flag is set; hence a release of the
\* queue's lock is a no-op whenever the queue already holds a task.
C20_ParkedImpliesIdle ==
    /\ taskQueue.lock.resolve = "waiter" =>
          taskQueue.head = Null /\ Queued(taskQueue) = << >>
    /\ availability.lock.resolve = "waiter" =>
          /\ availability.availabilityCount = 0
          /\ \A s \in Slots : ~availability.availability[s]
    /\ Queued(taskQueue) # << >> => release(taskQueue.lock) = taskQueue.lock

\* The dispatcher is parked on the tracker with no slot idle, and a task was
\* pushed on a queue that already held one.
C20_Witness ==
    /\ pc = "availAwait"
    /\ availability.lock.resolve = "waiter"
    /\ Len(Queued(taskQueue)) >= 2

====
